---- MODULE Spec2Model ----
(***************************************************************************)
(* Model of jupyterhub/services/auth.py: the expiring cache               *)
(* (_ExpiringDict), the Hub API client (HubAuth._api_request), the token   *)
(* resolver (HubAuth._check_hub_authorization) and check_scopes.           *)
(*                                                                         *)
(* Python values are modelled as records of one shape (PyVal) so that any  *)
(* two of them compare; cache keys are strings, with NoKey standing for    *)
(* the Python None passed as cache_key.                                    *)
(***************************************************************************)
EXTENDS Integers, Sequences, FiniteSets, TLC

VARIABLES
    now,          \* time.monotonic()
    max_age,      \* _ExpiringDict.max_age
    values,       \* _ExpiringDict.values      : key -> value
    timestamps,   \* _ExpiringDict.timestamps  : key -> monotonic time of the set
    last_op,      \* the last operation called on the cache and its outcome
    lastset,      \* history: per key, the last value set and when (dropped by clear)
    pc,           \* per caller: where it is in _check_hub_authorization
    call,         \* per caller: arguments, locals and outcome of its call
    win,          \* history: per cache key, the TTL window opened by a first (missing) call
    evicted,      \* history: per caller, whether the lookup of its call dropped a stale entry
    api_in,       \* arguments of a direct _api_request call
    api_out,      \* its outcome
    api_sent,     \* the request it handed to requests.request
    sc_in,        \* arguments of a check_scopes call
    sc_out,       \* its result
    hub,          \* the HubAuth traits cache_max_age, cookie_cache_max_age and cache
    cfg_in,       \* the environment and the explicit settings a HubAuth is built from
    cfg_out       \* the configuration values it then holds

vars == <<now, max_age, values, timestamps, last_op, lastset, pc, call, win,
          api_in, api_out, api_sent, sc_in, sc_out, hub, cfg_in, cfg_out,
          evicted>>

cacheVars == <<max_age, values, timestamps>>
authVars  == <<pc, call, win>>
apiVars   == <<api_in, api_out, api_sent>>
scopeVars == <<sc_in, sc_out>>
confVars  == <<hub, cfg_in, cfg_out>>

-----------------------------------------------------------------------------
(* Bounds of the model *)

MaxTime == 3        \* the monotonic clock runs over 0..MaxTime
MaxAge == 2         \* max_age is drawn from 0..MaxAge

Times == 0..MaxTime

-----------------------------------------------------------------------------
(* Python values *)

Missing == "<missing>"     \* the key is not in the dict
NonStr  == "<non-str>"     \* a JSON value that is not a string (number, null, list ...)

\* a parsed JSON body / a value held in the cache
PyVal(t, name, error_description, error) ==
    [t |-> t, name |-> name, error_description |-> error_description, error |-> error]

None == PyVal("NoneType", Missing, Missing, Missing)

UserModel == PyVal("dict", "alice", Missing, Missing)

\* cache keys: the empty string is a str like any other
CacheKeys == {"", "token:abc"}
NoKey == "<None>"          \* cache_key=None

\* what is stored through the cache in the model
CacheValues == {None, UserModel}

-----------------------------------------------------------------------------
(* _ExpiringDict *)

Pop(f, key) == [k \in DOMAIN f \ {key} |-> f[k]]

Put(f, key, v) == [k \in DOMAIN f \cup {key} |-> IF k = key THEN v ELSE f[k]]

Empty == [k \in {} |-> None]

Cache(vs, ts) == [values |-> vs, timestamps |-> ts]

\* __setitem__: record the timestamp, then the value
setitem_nonone(key, value) ==
    IF value = None THEN Cache(values, timestamps)
    ELSE Cache(Put(values, key, value), Put(timestamps, key, now))

setitem_keepstamp(key, value) ==
    Cache(Put(values, key, value),
          IF key \in DOMAIN timestamps THEN timestamps ELSE Put(timestamps, key, now))

setitem(key, value) ==
    Cache(Put(values, key, value), Put(timestamps, key, now))

\* _check_age: drop the entry of key when it is older than max_age
check_age_noguard(key) ==
    IF key \notin DOMAIN values THEN Cache(values, timestamps)
    ELSE IF timestamps[key] + max_age < now
         THEN Cache(Pop(values, key), Pop(timestamps, key))
         ELSE Cache(values, timestamps)

check_age_reversed(key) ==
    IF key \notin DOMAIN values THEN Cache(values, timestamps)
    ELSE IF max_age > 0 /\ timestamps[key] + max_age > now
         THEN Cache(Pop(values, key), Pop(timestamps, key))
         ELSE Cache(values, timestamps)

check_age_grace(key) ==
    IF key \notin DOMAIN values THEN Cache(values, timestamps)
    ELSE IF max_age > 0 /\ timestamps[key] + max_age + 1 < now
         THEN Cache(Pop(values, key), Pop(timestamps, key))
         ELSE Cache(values, timestamps)

check_age_valuesonly(key) ==
    IF key \notin DOMAIN values THEN Cache(values, timestamps)
    ELSE IF max_age > 0 /\ timestamps[key] + max_age < now
         THEN Cache(Pop(values, key), timestamps)
         ELSE Cache(values, timestamps)

check_age(key) ==
    IF key \notin DOMAIN values THEN Cache(values, timestamps)
    ELSE IF max_age > 0 /\ timestamps[key] + max_age < now
         THEN Cache(Pop(values, key), Pop(timestamps, key))
         ELSE Cache(values, timestamps)

\* __getitem__: check the age, then self.values[key] (KeyError when absent)
getitem(key) ==
    LET c == check_age(key) IN
    [cache  |-> c,
     raised |-> IF key \in DOMAIN c.values THEN "none" ELSE "KeyError",
     value  |-> IF key \in DOMAIN c.values THEN c.values[key] ELSE None]

\* __contains__: check the age, then key in self.values
contains(key) ==
    LET c == check_age(key) IN
    [cache |-> c, found |-> key \in DOMAIN c.values]

\* get: self[key], the default on KeyError
get(key, default) ==
    LET g == getitem(key) IN
    [cache |-> g.cache, value |-> IF g.raised = "KeyError" THEN default ELSE g.value]

\* clear
clear == Cache(Empty, Empty)

-----------------------------------------------------------------------------
(* The cache used directly *)

\* an operation as called: had, was: whether the key had a timestamp when it was
\* called, and which
Op(op, key, arg, raised, value, found) ==
    [op |-> op, key |-> key, arg |-> arg, raised |-> raised, value |-> value,
     found |-> found, at |-> now,
     had |-> key \in DOMAIN timestamps,
     was |-> IF key \in DOMAIN timestamps THEN timestamps[key] ELSE 0]

NoOp == [op |-> "init", key |-> NoKey, arg |-> None, raised |-> "none",
         value |-> None, found |-> FALSE, at |-> 0, had |-> FALSE, was |-> 0]

Stored(v, t) == [value |-> v, t |-> t]

\* a window that has run out is forgotten
Expire(w, t) ==
    IF w.open /\ max_age > 0 /\ t > w.start + max_age
    THEN [open |-> FALSE, start |-> 0, up |-> 0, ok |-> 0, late |-> 0]
    ELSE w

Tick ==
    /\ now < MaxTime
    /\ now' = now + 1
    /\ win' = [k \in DOMAIN win |-> Expire(win[k], now + 1)]
    /\ UNCHANGED <<cacheVars, last_op, lastset, pc, call, apiVars, scopeVars, confVars, evicted>>

CacheSet(key, value) ==
    LET c == setitem(key, value) IN
    /\ values' = c.values
    /\ timestamps' = c.timestamps
    /\ last_op' = Op("setitem", key, value, "none", None, FALSE)
    /\ lastset' = Put(lastset, key, Stored(value, now))
    /\ UNCHANGED <<now, max_age, authVars, apiVars, scopeVars, confVars, evicted>>

CacheGetItem(key) ==
    LET g == getitem(key) IN
    /\ values' = g.cache.values
    /\ timestamps' = g.cache.timestamps
    /\ last_op' = Op("getitem", key, None, g.raised, g.value, FALSE)
    /\ UNCHANGED <<now, max_age, lastset, authVars, apiVars, scopeVars, confVars, evicted>>

CacheContains(key) ==
    LET c == contains(key) IN
    /\ values' = c.cache.values
    /\ timestamps' = c.cache.timestamps
    /\ last_op' = Op("contains", key, None, "none", None, c.found)
    /\ UNCHANGED <<now, max_age, lastset, authVars, apiVars, scopeVars, confVars, evicted>>

CacheGet(key, default) ==
    LET g == get(key, default) IN
    /\ values' = g.cache.values
    /\ timestamps' = g.cache.timestamps
    /\ last_op' = Op("get", key, default, "none", g.value, FALSE)
    /\ UNCHANGED <<now, max_age, lastset, authVars, apiVars, scopeVars, confVars, evicted>>

CacheClear ==
    /\ values' = clear.values
    /\ timestamps' = clear.timestamps
    /\ last_op' = Op("clear", NoKey, None, "none", None, FALSE)
    /\ lastset' = Empty
    /\ UNCHANGED <<now, max_age, authVars, apiVars, scopeVars, confVars, evicted>>

-----------------------------------------------------------------------------
(* HubAuth._api_request *)

MinStatus == 200    \* HTTP status codes run over MinStatus..MaxStatus
MaxStatus == 599

Statuses == MinStatus..MaxStatus

\* the body of a response: whether r.json() parses it, and to what
Body(parses, json) == [parses |-> parses, json |-> json]

JsonList == PyVal("list", Missing, Missing, Missing)

JsonDicts ==
    { PyVal("dict", n, d, e) :
        n \in {Missing, "alice"},
        d \in {Missing, NonStr, "invalid_grant"},
        e \in {Missing, NonStr, "not_found"} }

JsonValues == JsonDicts \cup {None, JsonList}

NotJson == Body(FALSE, None)

Bodies == {NotJson} \cup { Body(TRUE, j) : j \in JsonValues }

\* what requests.request does: raise ConnectionError, or return a response r
Response(transport, status_code, body) ==
    [transport |-> transport, status_code |-> status_code, body |-> body]

ConnectionFailed == Response("ConnectionError", MinStatus, NotJson)

Responses ==
    {ConnectionFailed} \cup { Response("ok", s, b) : s \in Statuses, b \in Bodies }

\* the HubAuth configuration _api_request reads
ApiUrls ==
    {"http://127.0.0.1:8081/hub/api", "http://localhost:8081/hub/api",
     "http://hub:8081/hub/api"}

ServiceToken == "service-token"     \* self.api_token, the service's own token
UserToken == "user-token"           \* a token presented to the service, to be verified

HubConfig(api_url) == [api_url |-> api_url, api_token |-> ServiceToken]

DefaultHub == HubConfig("http://127.0.0.1:8081/hub/api")

\* '127.0.0.1' in self.api_url
Has127(url) == url \in {"http://127.0.0.1:8081/hub/api"}

Hostname == "service-host"      \* socket.gethostname()

\* a message is the sequence of the fragments concatenated into it
Says(msg, fragment) == \E i \in 1..Len(msg) : msg[i] = fragment

PermissionMsg == "Permission failure checking authorization, I may need a new token"

Raise(exc, code, msg) == [raised |-> exc, code |-> code, msg |-> msg, data |-> None]

Return(data) == [raised |-> "none", code |-> 0, msg |-> <<>>, data |-> data]

HubIpHint == "  Make sure to set c.JupyterHub.hub_ip to an IP accessible to single-user servers if the servers are not on the same host as the Hub."

ConnectMsg_alwayshint(self) ==
    <<"Failed to connect to Hub API at ", self.api_url, ".",
      "  Is the Hub accessible at this URL (from host: ", Hostname, ")?", HubIpHint>>

ConnectMsg(self) ==
    <<"Failed to connect to Hub API at ", self.api_url, ".",
      "  Is the Hub accessible at this URL (from host: ", Hostname, ")?">>
    \o (IF Has127(self.api_url) THEN <<HubIpHint>> ELSE <<>>)

\* response.get("error_description", response.get("error", "Unknown error"))
Description(response) ==
    IF response.error_description # Missing THEN response.error_description
    ELSE IF response.error # Missing THEN response.error
    ELSE "Unknown error"

\* the status >= 400 branch: the message, enriched from the body when it can be
RequestFailure(r) ==
    LET msg == <<"Failed to check authorization">> IN
    IF ~r.body.parses \/ r.body.json.t # "dict"
    THEN Raise("HTTPError", 500, msg)                 \* except Exception: pass
    ELSE IF Description(r.body.json) = NonStr
         THEN Raise("TypeError", 0, <<>>)             \* ": " + description, outside the try
         ELSE Raise("HTTPError", 500, msg \o <<": ", Description(r.body.json)>>)

api_request_403first(self, r, allow_403) ==
    IF r.transport = "ConnectionError" THEN Raise("HTTPError", 500, ConnectMsg(self))
    ELSE IF r.status_code = 403
    THEN Raise("HTTPError", 500, <<PermissionMsg>>)
    ELSE IF r.status_code >= 500
    THEN Raise("HTTPError", 502, <<"Failed to check authorization (upstream problem)">>)
    ELSE IF r.status_code >= 400 THEN RequestFailure(r)
    ELSE IF r.body.parses THEN Return(r.body.json)
    ELSE Raise("JSONDecodeError", 0, <<>>)

api_request(self, r, allow_403) ==
    IF r.transport = "ConnectionError" THEN Raise("HTTPError", 500, ConnectMsg(self))
    ELSE IF r.status_code = 403 /\ allow_403 THEN Return(None)
    ELSE IF r.status_code = 403
    THEN Raise("HTTPError", 500, <<PermissionMsg>>)
    ELSE IF r.status_code >= 500
    THEN Raise("HTTPError", 502, <<"Failed to check authorization (upstream problem)">>)
    ELSE IF r.status_code >= 400 THEN RequestFailure(r)
    ELSE IF r.body.parses THEN Return(r.body.json)
    ELSE Raise("JSONDecodeError", 0, <<>>)

NoOutcome == [raised |-> "pending", code |-> 0, msg |-> <<>>, data |-> None]

\* a header value is the sequence of the fragments concatenated into it
TokenHeader(token) == <<"token ", token>>

\* a headers dict: header name -> value; names are dict keys, compared exactly
NoHeaders == [h \in {} |-> <<>>]

\* the headers keyword argument: not passed, or a dict
Kwargs(has_headers, headers) == [has_headers |-> has_headers, headers |-> headers]

NoKwargs == Kwargs(FALSE, NoHeaders)

HeaderDicts ==
    { NoHeaders,
      [h \in {"Accept"} |-> <<"application/json">>],
      [h \in {"Authorization"} |-> TokenHeader(UserToken)],
      [h \in {"Authorization"} |-> <<"Bearer ", "abc">>],
      [h \in {"Authorization", "Accept"} |->
          IF h = "Accept" THEN <<"application/json">> ELSE TokenHeader(UserToken)] }

KwargsSet == {NoKwargs} \cup { Kwargs(TRUE, d) : d \in HeaderDicts }

\* lines 346-347: the headers handed to requests.request
request_headers_overwrite(self, kwargs) ==
    LET headers == IF kwargs.has_headers THEN kwargs.headers ELSE NoHeaders IN
    Put(headers, "Authorization", TokenHeader(self.api_token))

request_headers(self, kwargs) ==
    LET headers == IF kwargs.has_headers THEN kwargs.headers ELSE NoHeaders IN
    IF "Authorization" \in DOMAIN headers THEN headers
    ELSE Put(headers, "Authorization", TokenHeader(self.api_token))

NoSent == [made |-> FALSE, headers |-> NoHeaders]

NoApiCall ==
    [self |-> DefaultHub, r |-> ConnectionFailed, allow_403 |-> FALSE, kwargs |-> NoKwargs]

\* one direct call of _api_request on the arguments drawn by InitApi
ApiRequest ==
    /\ api_out.raised = "pending"
    /\ api_sent' = [made |-> TRUE, headers |-> request_headers(api_in.self, api_in.kwargs)]
    /\ api_out' = api_request(api_in.self, api_in.r, api_in.allow_403)
    /\ UNCHANGED <<now, cacheVars, last_op, lastset, authVars, api_in, scopeVars, confVars, evicted>>

-----------------------------------------------------------------------------
(* HubAuth._check_hub_authorization *)

MaxUp == 3          \* upstream requests counted in one TTL window

\* the callers of the resolver
Procs == {"c1"}

\* the answers of the Hub the resolver is run against
HubAnswers ==
    { ConnectionFailed,
      Response("ok", 200, Body(TRUE, UserModel)),
      Response("ok", 200, Body(TRUE, None)),
      Response("ok", 200, NotJson),
      Response("ok", 403, NotJson),
      Response("ok", 404, Body(TRUE, PyVal("dict", Missing, Missing, "not_found"))),
      Response("ok", 400, Body(TRUE, PyVal("dict", Missing, NonStr, Missing))),
      Response("ok", 500, NotJson) }

\* no request made yet
NoAnswer == Response("none", MinStatus, NotJson)

\* a call: its arguments, what it has done so far (answer: what the Hub answered to
\* its upstream request), and how it ended
NoCall ==
    [cache_key |-> NoKey, use_cache |-> FALSE, read |-> FALSE, wrote |-> FALSE,
     upstream |-> 0, answer |-> NoAnswer, raised |-> "none", code |-> 0, data |-> None,
     api_token |-> UserToken, auth |-> <<>>, allow_403 |-> FALSE]

NewCall(cache_key, use_cache) ==
    [NoCall EXCEPT !.cache_key = cache_key, !.use_cache = use_cache]

\* the TTL window of a key: opened at `start` by a call that missed the cache;
\* up: upstream requests of the calls made in it, ok: those that returned,
\* late: those made after one had returned
NoWin == [open |-> FALSE, start |-> 0, up |-> 0, ok |-> 0, late |-> 0]

InWindow(w, t) == w.open /\ (max_age = 0 \/ t <= w.start + max_age)

Missed(w) ==
    IF InWindow(w, now)
    THEN [w EXCEPT !.up = @ + 1, !.late = @ + (IF w.ok > 0 THEN 1 ELSE 0)]
    ELSE [open |-> TRUE, start |-> now, up |-> 1, ok |-> 0, late |-> 0]

Hit(w) == IF InWindow(w, now) THEN w ELSE NoWin

Returned(key) ==
    [k \in DOMAIN win |-> IF k = key THEN [win[k] EXCEPT !.ok = @ + 1] ELSE win[k]]

\* the model stops counting the upstream requests of one window at MaxUp
Countable(cache_key, use_cache) ==
    (/\ use_cache
     /\ cache_key \in CacheKeys
     /\ getitem(cache_key).raised = "KeyError"
     /\ InWindow(win[cache_key], now)) => win[cache_key].up < MaxUp

\* lines 319-326: the cache_key check and the cache lookup
Begin_nocheck(p, cache_key, use_cache) ==
    /\ pc[p] = "idle"
    /\ Countable(cache_key, use_cache)
    /\ IF use_cache
       THEN LET g == getitem(cache_key) IN
            /\ values' = g.cache.values
            /\ timestamps' = g.cache.timestamps
            /\ IF g.raised = "none"
               THEN /\ pc' = [pc EXCEPT ![p] = "done"]
                    /\ call' = [call EXCEPT ![p] =
                           [NewCall(cache_key, use_cache) EXCEPT
                                !.read = TRUE, !.data = g.value]]
                    /\ win' = IF cache_key \in CacheKeys
                              THEN [win EXCEPT ![cache_key] = Hit(@)] ELSE win
               ELSE /\ pc' = [pc EXCEPT ![p] = "request"]
                    /\ call' = [call EXCEPT ![p] =
                           [NewCall(cache_key, use_cache) EXCEPT !.read = TRUE]]
                    /\ win' = IF cache_key \in CacheKeys
                              THEN [win EXCEPT ![cache_key] = Missed(@)] ELSE win
       ELSE /\ pc' = [pc EXCEPT ![p] = "request"]
            /\ call' = [call EXCEPT ![p] = NewCall(cache_key, use_cache)]
            /\ UNCHANGED <<values, timestamps, win>>
    /\ UNCHANGED <<now, max_age, last_op, lastset, apiVars, scopeVars, confVars>>

\* the lookup made whatever use_cache says
Begin_alwaysread(p, cache_key, use_cache) ==
    /\ pc[p] = "idle"
    /\ Countable(cache_key, use_cache)
    /\ IF use_cache /\ cache_key = NoKey
       THEN /\ pc' = [pc EXCEPT ![p] = "done"]
            /\ call' = [call EXCEPT ![p] =
                   [NewCall(cache_key, use_cache) EXCEPT !.raised = "ValueError"]]
            /\ UNCHANGED <<values, timestamps, win>>
       ELSE IF cache_key = NoKey
       THEN /\ pc' = [pc EXCEPT ![p] = "request"]
            /\ call' = [call EXCEPT ![p] = NewCall(cache_key, use_cache)]
            /\ UNCHANGED <<values, timestamps, win>>
       ELSE LET g == getitem(cache_key) IN
            /\ values' = g.cache.values
            /\ timestamps' = g.cache.timestamps
            /\ IF g.raised = "none"
               THEN /\ pc' = [pc EXCEPT ![p] = "done"]
                    /\ call' = [call EXCEPT ![p] =
                           [NewCall(cache_key, use_cache) EXCEPT
                                !.read = TRUE, !.data = g.value]]
                    /\ win' = IF use_cache THEN [win EXCEPT ![cache_key] = Hit(@)] ELSE win
               ELSE /\ pc' = [pc EXCEPT ![p] = "request"]
                    /\ call' = [call EXCEPT ![p] =
                           [NewCall(cache_key, use_cache) EXCEPT !.read = TRUE]]
                    /\ win' = IF use_cache THEN [win EXCEPT ![cache_key] = Missed(@)]
                              ELSE win
    /\ UNCHANGED <<now, max_age, last_op, lastset, apiVars, scopeVars, confVars>>

Begin(p, cache_key, use_cache) ==
    /\ pc[p] = "idle"
    /\ Countable(cache_key, use_cache)
    /\ IF use_cache
       THEN IF cache_key = NoKey
            THEN \* raise ValueError("cache_key is required when using cache")
                 /\ pc' = [pc EXCEPT ![p] = "done"]
                 /\ call' = [call EXCEPT ![p] =
                        [NewCall(cache_key, use_cache) EXCEPT !.raised = "ValueError"]]
                 /\ UNCHANGED <<values, timestamps, win>>
            ELSE LET g == getitem(cache_key) IN
                 /\ values' = g.cache.values
                 /\ timestamps' = g.cache.timestamps
                 /\ IF g.raised = "none"
                    THEN \* return self.cache[cache_key]
                         /\ pc' = [pc EXCEPT ![p] = "done"]
                         /\ call' = [call EXCEPT ![p] =
                                [NewCall(cache_key, use_cache) EXCEPT
                                     !.read = TRUE, !.data = g.value]]
                         /\ win' = [win EXCEPT ![cache_key] = Hit(@)]
                    ELSE \* except KeyError: cache miss
                         /\ pc' = [pc EXCEPT ![p] = "request"]
                         /\ call' = [call EXCEPT ![p] =
                                [NewCall(cache_key, use_cache) EXCEPT !.read = TRUE]]
                         /\ win' = [win EXCEPT ![cache_key] = Missed(@)]
       ELSE /\ pc' = [pc EXCEPT ![p] = "request"]
            /\ call' = [call EXCEPT ![p] = NewCall(cache_key, use_cache)]
            /\ UNCHANGED <<values, timestamps, win>>
    /\ UNCHANGED <<now, max_age, last_op, lastset, apiVars, scopeVars, confVars>>

\* lines 328-333: the request as the resolver makes it, and its outcome on answer r
hub_request_strict(self, api_token, r) ==
    LET kwargs == Kwargs(TRUE, [h \in {"Authorization"} |-> TokenHeader(api_token)]) IN
    [headers |-> request_headers(self, kwargs), allow_403 |-> FALSE,
     o |-> api_request(self, r, FALSE)]

hub_request(self, api_token, r) ==
    LET kwargs == Kwargs(TRUE, [h \in {"Authorization"} |-> TokenHeader(api_token)]) IN
    [headers |-> request_headers(self, kwargs), allow_403 |-> TRUE,
     o |-> api_request(self, r, TRUE)]

\* the call c once its request q has been answered by r
Asked(c, r, q) ==
    [c EXCEPT !.upstream = 1, !.answer = r, !.auth = q.headers["Authorization"],
              !.allow_403 = q.allow_403]

\* lines 328-341: the upstream request with allow_403=True; its result is cached and
\* returned, its exception propagates
Request_nostore(p) ==
    /\ pc[p] = "request"
    /\ \E r \in HubAnswers :
         LET c == call[p]
             q == hub_request(DefaultHub, c.api_token, r)
             o == q.o IN
         /\ pc' = [pc EXCEPT ![p] = "done"]
         /\ call' = [call EXCEPT ![p] =
                [Asked(c, r, q) EXCEPT !.raised = o.raised, !.code = o.code,
                          !.data = o.data]]
         /\ IF o.raised = "none" /\ c.use_cache
            THEN win' = Returned(c.cache_key)
            ELSE UNCHANGED win
         /\ UNCHANGED <<values, timestamps>>
    /\ UNCHANGED <<now, max_age, last_op, lastset, apiVars, scopeVars, confVars, evicted>>

\* a failed request leaves None in the cache
Request_cachefail(p) ==
    /\ pc[p] = "request"
    /\ \E r \in HubAnswers :
         LET c == call[p]
             q == hub_request(DefaultHub, c.api_token, r)
             o == q.o IN
         /\ pc' = [pc EXCEPT ![p] = "done"]
         /\ IF c.use_cache
            THEN LET s == setitem(c.cache_key, o.data) IN
                 /\ values' = s.values
                 /\ timestamps' = s.timestamps
                 /\ call' = [call EXCEPT ![p] =
                        [Asked(c, r, q) EXCEPT !.wrote = TRUE, !.raised = o.raised,
                                               !.code = o.code, !.data = o.data]]
                 /\ win' = IF o.raised = "none" THEN Returned(c.cache_key) ELSE win
            ELSE /\ call' = [call EXCEPT ![p] =
                        [Asked(c, r, q) EXCEPT !.raised = o.raised,
                                               !.code = o.code, !.data = o.data]]
                 /\ UNCHANGED <<values, timestamps, win>>
    /\ UNCHANGED <<now, max_age, last_op, lastset, apiVars, scopeVars, confVars, evicted>>

\* a caller that finds the entry another caller has stored meanwhile takes it
Request_dedup(p) ==
    /\ pc[p] = "request"
    /\ \E r \in HubAnswers :
         LET c == call[p]
             q == hub_request(DefaultHub, c.api_token, r)
             o == q.o IN
         /\ pc' = [pc EXCEPT ![p] = "done"]
         /\ IF c.use_cache /\ contains(c.cache_key).found
            THEN /\ call' = [call EXCEPT ![p] = [c EXCEPT !.data = values[c.cache_key]]]
                 /\ UNCHANGED <<values, timestamps, win>>
            ELSE IF o.raised = "none" /\ c.use_cache
            THEN LET s == setitem(c.cache_key, o.data) IN
                 /\ values' = s.values
                 /\ timestamps' = s.timestamps
                 /\ call' = [call EXCEPT ![p] =
                        [Asked(c, r, q) EXCEPT !.wrote = TRUE,
                                  !.data = o.data]]
                 /\ win' = Returned(c.cache_key)
            ELSE /\ call' = [call EXCEPT ![p] =
                        [Asked(c, r, q) EXCEPT !.raised = o.raised,
                                  !.code = o.code, !.data = o.data]]
                 /\ UNCHANGED <<values, timestamps, win>>
    /\ UNCHANGED <<now, max_age, last_op, lastset, apiVars, scopeVars, confVars, evicted>>

Request(p) ==
    /\ pc[p] = "request"
    /\ \E r \in HubAnswers :
         LET c == call[p]
             q == hub_request(DefaultHub, c.api_token, r)
             o == q.o IN
         /\ pc' = [pc EXCEPT ![p] = "done"]
         /\ IF o.raised = "none" /\ c.use_cache
            THEN \* self.cache[cache_key] = data
                 LET s == setitem(c.cache_key, o.data) IN
                 /\ values' = s.values
                 /\ timestamps' = s.timestamps
                 /\ call' = [call EXCEPT ![p] =
                        [Asked(c, r, q) EXCEPT !.wrote = TRUE, !.data = o.data]]
                 /\ win' = Returned(c.cache_key)
            ELSE /\ call' = [call EXCEPT ![p] =
                        [Asked(c, r, q) EXCEPT !.raised = o.raised,
                                  !.code = o.code, !.data = o.data]]
                 /\ UNCHANGED <<values, timestamps, win>>
    /\ UNCHANGED <<now, max_age, last_op, lastset, apiVars, scopeVars, confVars, evicted>>

\* the caller takes the outcome; it may call again
Finish(p) ==
    /\ pc[p] = "done"
    /\ pc' = [pc EXCEPT ![p] = "idle"]
    /\ call' = [call EXCEPT ![p] = NoCall]
    /\ UNCHANGED <<now, cacheVars, last_op, lastset, win, apiVars, scopeVars, confVars, evicted>>

\* one call at a time: _check_hub_authorization blocks its caller until it returns
AllIdle == \A q \in Procs : pc[q] = "idle"

-----------------------------------------------------------------------------
(* check_scopes *)

MaxScopes == 2      \* scopes in a required or held set

\* a scope string name[!fkey=fval]; fkey = "" when the scope carries no filter
Scope(name, fkey, fval) == [name |-> name, fkey |-> fkey, fval |-> fval]

Unfiltered(name) == Scope(name, "", "")

ScopeNames == {"read:users", "access:servers"}

Filters == {<<"", "">>, <<"user", "x">>, <<"user", "u">>, <<"group", "g">>}

Scopes == { Scope(n, f[1], f[2]) : n \in ScopeNames, f \in Filters }

ScopeSets == { S \in SUBSET Scopes : Cardinality(S) <= MaxScopes }

\* the required_scopes argument: one scope string, or a set of them
AsStr(scope) == [type |-> "str", str |-> scope, set |-> {}]
AsSet(S) == [type |-> "set", str |-> Unfiltered(""), set |-> S]

\* parse_scopes: a name held unfiltered stands for every filter of it
Variants(S, name) ==
    IF Unfiltered(name) \in S THEN {Unfiltered(name)}
    ELSE { s \in S : s.name = name }

Names(S) == { s.name : s \in S }

\* the scopes module's intersection of two scope sets: per common name, the
\* filtered side when the other is unfiltered, else the filters both carry
intersect_expanded_scopes(scopes_a, scopes_b) ==
    UNION { IF Unfiltered(n) \in scopes_a THEN Variants(scopes_b, n)
            ELSE IF Unfiltered(n) \in scopes_b THEN Variants(scopes_a, n)
            ELSE Variants(scopes_a, n) \cap Variants(scopes_b, n)
            : n \in Names(scopes_a) \cap Names(scopes_b) }

\* lines 61-62: isinstance(required_scopes, str)
\* (without the test, set() of a str is the set of its characters: no scope)
normalize_nostr(required_scopes) ==
    IF required_scopes.type = "str" THEN {}
    ELSE required_scopes.set

normalize(required_scopes) ==
    IF required_scopes.type = "str" THEN {required_scopes.str}
    ELSE required_scopes.set

\* who is in which group is the Hub's knowledge: check_scopes is given no handle on it
InGroup(user, group) == <<user, group>> \in {<<"u", "g">>}

check_scopes_groupresolve(required_scopes, scopes) ==
    LET required == normalize(required_scopes) IN
    { r \in required :
        \/ r \in intersect_expanded_scopes(required, scopes)
        \/ /\ r.fkey = "user"
           /\ \E h \in scopes :
                  h.name = r.name /\ h.fkey = "group" /\ InGroup(r.fval, h.fval) }

check_scopes_noreintersect(required_scopes, scopes) ==
    intersect_expanded_scopes(normalize(required_scopes), scopes)

check_scopes(required_scopes, scopes) ==
    LET required == normalize(required_scopes)
        intersection == intersect_expanded_scopes(required, scopes)
    IN  required \cap intersection

NoScopeCall == [required_scopes |-> AsSet({}), scopes |-> {}]

NoScopeResult == [done |-> FALSE, result |-> {}]

\* one call of check_scopes on the arguments drawn by InitScopes
CheckScopes ==
    /\ ~sc_out.done
    /\ sc_out' = [done |-> TRUE,
                  result |-> check_scopes(sc_in.required_scopes, sc_in.scopes)]
    /\ UNCHANGED <<now, cacheVars, last_op, lastset, authVars, apiVars, sc_in, confVars, evicted>>

-----------------------------------------------------------------------------
(* HubAuth configuration *)

MaxAssigns == 2     \* assignments to cookie_cache_max_age counted

DefaultCacheMaxAge == 300

\* the values the two fields are set to
Ages == (0..MaxAge) \cup {DefaultCacheMaxAge}

\* the traits cache_max_age, cookie_cache_max_age (an Integer, 0 until set) and cache
\* of a HubAuth; warnings: calls of warnings.warn; history: assigns (assignments to
\* cookie_cache_max_age), copies (executions of line 276), last (the trait last
\* assigned), built_with (cache_max_age when the cache was built)
Traits(cache_max_age, cache_built) ==
    [cache_max_age |-> cache_max_age, cookie_cache_max_age |-> 0,
     cache_built |-> cache_built, built_with |-> cache_max_age,
     warnings |-> 0, assigns |-> 0, copies |-> 0, last |-> "none"]

BuiltHub(cache_max_age) == Traits(cache_max_age, TRUE)

\* @observe('cookie_cache_max_age')
deprecated_cookie_cache_nocopy(h, new) ==
    [h EXCEPT !.warnings = @ + 1]

deprecated_cookie_cache(h, new) ==
    [h EXCEPT !.warnings = @ + 1, !.cache_max_age = new, !.copies = @ + 1]

\* self.cookie_cache_max_age = v: the trait takes the value, and its observers are
\* notified when the value differs from the one it held
set_cookie_cache_max_age(h, v) ==
    LET old == h.cookie_cache_max_age
        h1  == [h EXCEPT !.cookie_cache_max_age = v, !.assigns = @ + 1,
                         !.last = "cookie_cache_max_age"] IN
    IF old # v THEN deprecated_cookie_cache(h1, v) ELSE h1

SetCookieCacheMaxAge(v) ==
    /\ hub.assigns < MaxAssigns
    /\ hub' = set_cookie_cache_max_age(hub, v)
    /\ UNCHANGED <<now, cacheVars, last_op, lastset, authVars, apiVars, scopeVars,
                   cfg_in, cfg_out, evicted>>

\* self.cache_max_age = v
SetCacheMaxAge_rebuild(v) ==
    /\ hub' = [hub EXCEPT !.cache_max_age = v, !.last = "cache_max_age"]
    /\ max_age' = IF hub.cache_built THEN v ELSE max_age
    /\ UNCHANGED <<now, values, timestamps, last_op, lastset, authVars, apiVars,
                   scopeVars, cfg_in, cfg_out, evicted>>

SetCacheMaxAge(v) ==
    /\ hub' = [hub EXCEPT !.cache_max_age = v, !.last = "cache_max_age"]
    /\ UNCHANGED <<now, cacheVars, last_op, lastset, authVars, apiVars, scopeVars,
                   cfg_in, cfg_out, evicted>>

\* the first read of self.cache: @default('cache') builds it
BuildCache ==
    /\ ~hub.cache_built
    /\ hub' = [hub EXCEPT !.cache_built = TRUE, !.built_with = hub.cache_max_age]
    /\ max_age' = hub.cache_max_age
    /\ values' = Empty
    /\ timestamps' = Empty
    /\ UNCHANGED <<now, last_op, lastset, authVars, apiVars, scopeVars, cfg_in, cfg_out, evicted>>

\* an environment variable or an explicit setting: given or not, and its value
Opt(given, v) == [given |-> given, v |-> v]

Unset == Opt(FALSE, "")
UnsetPath == Opt(FALSE, <<>>)
UnsetScopes == Opt(FALSE, {})

\* os.getenv(name): None when the variable is not set
getenv(var) == IF var.given THEN var.v ELSE Missing

\* `x or default`, `if x:` on str or None: None and the empty string are false
Truthy(x) == x # Missing /\ x # ""

\* a path is the sequence of its segments and separators
Slash == "/"

\* @validate('base_url')
add_slash(value) ==
    LET v1 == IF value = <<>> \/ Head(value) # Slash THEN <<Slash>> \o value ELSE value
    IN  IF v1[Len(v1)] # Slash THEN v1 \o <<Slash>> ELSE v1

\* set(json.loads(text)) on the JSON texts of the model
JsonReadUsers == "[\"read:users\"]"

json_loads_set(text) == IF text = JsonReadUsers THEN {<<"read:users">>} ELSE {}

\* f'access:services!service={service_name}': a scope string is the sequence of its
\* fragments
ServiceScope(service_name) == <<"access:services!service=", service_name>>

\* @default('oauth_scopes')
default_scopes(env) ==
    LET env_scopes == getenv(env.JUPYTERHUB_OAUTH_SCOPES)
        service_name == getenv(env.JUPYTERHUB_SERVICE_NAME) IN
    IF Truthy(env_scopes) THEN json_loads_set(env_scopes)
    ELSE IF Truthy(service_name) THEN {ServiceScope(service_name)}
    ELSE {}

\* @default('api_url'), with hub_prefix at its '/hub/'
default_api_url(env) ==
    LET env_url == getenv(env.JUPYTERHUB_API_URL) IN
    IF Truthy(env_url) THEN env_url ELSE "http://127.0.0.1:8081/hub/api"

\* os.getenv('JUPYTERHUB_SERVICE_PREFIX') or '/'
default_base_url(env) ==
    IF env.JUPYTERHUB_SERVICE_PREFIX.given /\ env.JUPYTERHUB_SERVICE_PREFIX.v # <<>>
    THEN env.JUPYTERHUB_SERVICE_PREFIX.v ELSE <<Slash>>

\* os.getenv(name, '')
getenv_or_empty(var) == IF var.given THEN var.v ELSE ""

\* a trait: the value set explicitly (config or keyword), else its default
trait_default_only(explicit, default_value) == default_value

trait(explicit, default_value) == IF explicit.given THEN explicit.v ELSE default_value

NoEnv ==
    [JUPYTERHUB_API_URL |-> Unset, JUPYTERHUB_SERVICE_PREFIX |-> UnsetPath,
     JUPYTERHUB_API_TOKEN |-> Unset, JUPYTERHUB_HOST |-> Unset,
     JUPYTERHUB_OAUTH_SCOPES |-> Unset, JUPYTERHUB_SERVICE_NAME |-> Unset]

NoExplicit ==
    [api_url |-> Unset, base_url |-> UnsetPath, api_token |-> Unset, hub_host |-> Unset,
     oauth_scopes |-> UnsetScopes]

NoSettings == [env |-> NoEnv, explicit |-> NoExplicit]

\* HubAuth(**explicit) in the environment env
HubAuth(env, explicit) ==
    [built |-> TRUE,
     hub_host |-> trait(explicit.hub_host, getenv_or_empty(env.JUPYTERHUB_HOST)),
     base_url |-> IF explicit.base_url.given THEN add_slash(explicit.base_url.v)
                  ELSE default_base_url(env),
     api_url |-> trait(explicit.api_url, default_api_url(env)),
     api_token |-> trait(explicit.api_token, getenv_or_empty(env.JUPYTERHUB_API_TOKEN)),
     oauth_scopes |-> trait(explicit.oauth_scopes, default_scopes(env))]

NoConfig == [HubAuth(NoEnv, NoExplicit) EXCEPT !.built = FALSE]

\* the environments and the explicit settings a HubAuth is built from in the model
Envs ==
    [JUPYTERHUB_API_URL : {Unset, Opt(TRUE, ""), Opt(TRUE, "http://hub:8081/hub/api")},
     JUPYTERHUB_SERVICE_PREFIX : {UnsetPath, Opt(TRUE, <<Slash, "services", Slash, "env", Slash>>)},
     JUPYTERHUB_API_TOKEN : {Unset, Opt(TRUE, "env-token")},
     JUPYTERHUB_HOST : {Unset, Opt(TRUE, "https://env.example.org")},
     JUPYTERHUB_OAUTH_SCOPES : {Unset, Opt(TRUE, ""), Opt(TRUE, "[]"), Opt(TRUE, JsonReadUsers)},
     JUPYTERHUB_SERVICE_NAME : {Unset, Opt(TRUE, ""), Opt(TRUE, "svc")}]

Explicits ==
    [api_url : {Unset, Opt(TRUE, "http://10.0.0.1:8081/hub/api")},
     base_url : {UnsetPath, Opt(TRUE, <<"services", Slash, "explicit">>)},
     api_token : {Unset, Opt(TRUE, "explicit-token")},
     hub_host : {Unset, Opt(TRUE, "https://explicit.example.org")},
     oauth_scopes : {UnsetScopes, Opt(TRUE, {<<"access:servers">>})}]

\* the construction of a HubAuth from the settings drawn by InitEnv
Construct ==
    /\ ~cfg_out.built
    /\ cfg_out' = HubAuth(cfg_in.env, cfg_in.explicit)
    /\ UNCHANGED <<now, cacheVars, last_op, lastset, authVars, apiVars, scopeVars,
                   hub, cfg_in, evicted>>

-----------------------------------------------------------------------------
(* Specifications *)

InitCache ==
    /\ now = 0
    /\ max_age \in 0..MaxAge
    /\ values = Empty
    /\ timestamps = Empty
    /\ last_op = NoOp
    /\ lastset = Empty

InitAuth ==
    /\ pc = [p \in Procs |-> "idle"]
    /\ call = [p \in Procs |-> NoCall]
    /\ win = [k \in CacheKeys |-> NoWin]
    /\ evicted = [p \in Procs |-> FALSE]

InitNoApi == api_in = NoApiCall /\ api_out = NoOutcome /\ api_sent = NoSent

\* the cache has been built from cache_max_age; the deprecated field was never set
InitBuilt ==
    /\ hub = BuiltHub(max_age)
    /\ cfg_in = NoSettings
    /\ cfg_out = NoConfig

InitNoScopes == sc_in = NoScopeCall /\ sc_out = NoScopeResult

\* a HubAuth with its cache just built, no call made yet
Init == InitCache /\ InitAuth /\ InitNoApi /\ InitNoScopes /\ InitBuilt

\* the resolver, called by one caller at a time, over the life of the process
Next ==
    \/ Tick
    \/ \E p \in Procs, k \in CacheKeys \cup {NoKey}, u \in BOOLEAN :
           AllIdle /\ Begin(p, k, u) /\ UNCHANGED evicted
    \/ \E p \in Procs : Request(p)
    \/ \E p \in Procs : Finish(p)

Spec == Init /\ [][Next]_vars

\* the cache on its own
NextCache ==
    \/ Tick
    \/ \E k \in CacheKeys, v \in CacheValues : CacheSet(k, v)
    \/ \E k \in CacheKeys : CacheGetItem(k)
    \/ \E k \in CacheKeys : CacheContains(k)
    \/ \E k \in CacheKeys, d \in CacheValues : CacheGet(k, d)
    \/ CacheClear

SpecCache == Init /\ [][NextCache]_vars

\* _api_request on every response
ApiCalls ==
    { [self |-> HubConfig(u), r |-> ConnectionFailed, allow_403 |-> a, kwargs |-> NoKwargs] :
        u \in ApiUrls, a \in BOOLEAN }
    \cup
    { [self |-> DefaultHub, r |-> r, allow_403 |-> a, kwargs |-> NoKwargs] :
        r \in Responses, a \in BOOLEAN }
    \cup
    { [self |-> DefaultHub, r |-> r, allow_403 |-> a, kwargs |-> k] :
        r \in HubAnswers, a \in BOOLEAN, k \in KwargsSet }

InitApi ==
    /\ InitCache /\ max_age = 0
    /\ InitAuth
    /\ api_in \in ApiCalls
    /\ api_out = NoOutcome
    /\ api_sent = NoSent
    /\ InitNoScopes
    /\ InitBuilt

NextApi == ApiRequest

SpecApi == InitApi /\ [][NextApi]_vars

\* the resolver with the history of its lookups: whether the lookup of lines 323-326
\* found a stale entry under the key and dropped it
LookupEvicts(cache_key, use_cache) ==
    /\ use_cache
    /\ cache_key \in DOMAIN values
    /\ cache_key \notin DOMAIN check_age(cache_key).values

NextStale ==
    \/ Tick
    \/ \E p \in Procs, k \in CacheKeys, u \in BOOLEAN :
           /\ AllIdle /\ Begin(p, k, u)
           /\ evicted' = [evicted EXCEPT ![p] = LookupEvicts(k, u)]
    \/ \E p \in Procs : Request(p)
    \/ \E p \in Procs : Finish(p)

SpecStale == Init /\ [][NextStale]_vars

\* two callers in the surrounding server, one call each, interleaved at the upstream
\* request, where _check_hub_authorization waits for the Hub
ConcProcs == {"c1", "c2"}

InitConc ==
    /\ InitCache
    /\ pc = [p \in ConcProcs |-> "idle"]
    /\ call = [p \in ConcProcs |-> NoCall]
    /\ win = [k \in CacheKeys |-> NoWin]
    /\ evicted = [p \in ConcProcs |-> FALSE]
    /\ InitNoApi
    /\ InitNoScopes
    /\ InitBuilt

NextConc ==
    \/ Tick
    \/ \E p \in ConcProcs, k \in CacheKeys, u \in BOOLEAN :
           Begin(p, k, u) /\ UNCHANGED evicted
    \/ \E p \in ConcProcs : Request(p)

SpecConc == InitConc /\ [][NextConc]_vars

\* a HubAuth just constructed: its fields are set, its cache is built on first use
InitTraits ==
    /\ InitCache /\ max_age = 0
    /\ InitAuth
    /\ InitNoApi
    /\ InitNoScopes
    /\ hub = Traits(DefaultCacheMaxAge, FALSE)
    /\ cfg_in = NoSettings
    /\ cfg_out = NoConfig

NextTraits ==
    \/ \E v \in Ages : SetCookieCacheMaxAge(v)
    \/ \E v \in Ages : SetCacheMaxAge(v)
    \/ BuildCache
    \/ \E k \in CacheKeys, v \in CacheValues : hub.cache_built /\ CacheSet(k, v)

SpecTraits == InitTraits /\ [][NextTraits]_vars

\* a HubAuth built in every environment, with every choice of explicit settings
InitEnv ==
    /\ InitCache /\ max_age = 0
    /\ InitAuth
    /\ InitNoApi
    /\ InitNoScopes
    /\ hub = Traits(DefaultCacheMaxAge, FALSE)
    /\ cfg_in \in [env : Envs, explicit : Explicits]
    /\ cfg_out = NoConfig

NextEnv == Construct

SpecEnv == InitEnv /\ [][NextEnv]_vars

\* check_scopes on every pair of small scope sets
InitScopes ==
    /\ InitCache /\ max_age = 0
    /\ InitAuth
    /\ InitNoApi
    /\ sc_in \in { [required_scopes |-> r, scopes |-> h] :
                     r \in { AsStr(s) : s \in Scopes } \cup { AsSet(S) : S \in ScopeSets },
                     h \in ScopeSets }
    /\ sc_out = NoScopeResult
    /\ InitBuilt

NextScopes == CheckScopes

SpecScopes == InitScopes /\ [][NextScopes]_vars

-----------------------------------------------------------------------------
(* Claims *)

ReadOps == {"getitem", "get", "contains"}

\* the last operation was a read of `key` that found v
Found(op, v) ==
    \/ op.op = "getitem" /\ op.raised = "none" /\ op.value = v
    \/ op.op = "get" /\ op.value = v
    \/ op.op = "contains" /\ op.found

\* the last operation was a read that found nothing
NotFound(op) ==
    \/ op.op = "getitem" /\ op.raised = "KeyError"
    \/ op.op = "get" /\ op.value = op.arg
    \/ op.op = "contains" /\ ~op.found

\* C1 as stated: in the TTL window opened by a first call for a key, the calls made
\* trigger exactly one upstream request, whatever the Hub answers.
C1_OneRequestWhateverAnswer ==
    \A k \in CacheKeys : win[k].open => win[k].up = 1

\* C1 (amended): in the TTL window opened by a first call for a key, at most one
\* upstream request returns (an identity record or the absent identity), no call of
\* the window goes upstream after it, and every call of the window that returns
\* without raising rests on that one request; a request that raises caches nothing.
C1_OneReturnedRequestPerWindow ==
    \A k \in CacheKeys :
        win[k].open =>
            /\ win[k].ok <= 1
            /\ win[k].late = 0
            /\ \A p \in Procs :
                   (/\ pc[p] = "done"
                    /\ call[p].use_cache
                    /\ call[p].cache_key = k
                    /\ call[p].raised = "none") => win[k].ok = 1

\* a later call of the window is served the cached absent identity: no request
C1_Witness ==
    \E p \in Procs :
        /\ pc[p] = "done"
        /\ call[p].use_cache
        /\ call[p].cache_key \in CacheKeys
        /\ call[p].upstream = 0
        /\ call[p].raised = "none"
        /\ call[p].data = None
        /\ win[call[p].cache_key].open
        /\ win[call[p].cache_key].up = 1
        /\ win[call[p].cache_key].ok = 1
        /\ now > win[call[p].cache_key].start

\* C2: with max_age > 0, a read less than max_age after the set finds the value set,
\* and a read more than max_age after it finds nothing (KeyError, not contained).
C2_TTLBoundary ==
    (max_age > 0 /\ last_op.op \in ReadOps /\ last_op.key \in DOMAIN lastset) =>
        LET s == lastset[last_op.key] IN
        /\ last_op.at - s.t < max_age => Found(last_op, s.value)
        /\ last_op.at - s.t > max_age => NotFound(last_op)

C2_Witness ==
    /\ max_age > 0
    /\ last_op.op = "getitem"
    /\ last_op.raised = "KeyError"
    /\ last_op.key \in DOMAIN lastset
    /\ last_op.at - lastset[last_op.key].t > max_age

\* C3: with max_age = 0 every value set stays in the cache and is found by every
\* read, whatever time has passed, until it is overwritten or the cache cleared.
C3_NeverExpires ==
    max_age = 0 =>
        /\ \A k \in DOMAIN lastset :
               /\ k \in DOMAIN values
               /\ values[k] = lastset[k].value
               /\ k \in DOMAIN timestamps
        /\ (last_op.op \in ReadOps /\ last_op.key \in DOMAIN lastset) =>
               Found(last_op, lastset[last_op.key].value)

C3_Witness ==
    /\ max_age = 0
    /\ last_op.op = "getitem"
    /\ last_op.raised = "none"
    /\ last_op.key \in DOMAIN lastset
    /\ last_op.value = lastset[last_op.key].value
    /\ last_op.at - lastset[last_op.key].t >= MaxTime

\* C4: a read that follows a set of the same key at once returns the value set, None
\* included (no KeyError, contained); a key never set raises KeyError.
C4_SetThenGet ==
    [][ /\ (/\ last_op.op = "setitem"
            /\ last_op'.op \in ReadOps
            /\ last_op'.key = last_op.key
            /\ last_op'.at = last_op.at)
           => /\ Found(last_op', last_op.arg)
              /\ last_op'.op = "getitem" => last_op'.raised = "none"
        /\ (/\ last_op'.op = "getitem"
            /\ last_op'.key \notin DOMAIN lastset')
           => last_op'.raised = "KeyError" ]_vars

C4_Witness ==
    /\ last_op.op = "getitem"
    /\ last_op.raised = "none"
    /\ last_op.value = None
    /\ last_op.key \in DOMAIN lastset
    /\ lastset[last_op.key] = Stored(None, last_op.at)

\* C5 as stated: with use_cache, a cache_key of None or "" raises ValueError before
\* the cache is read or written and before any upstream request.
C5_NoneOrEmptyKeyRejected ==
    \A p \in Procs :
        (pc[p] # "idle" /\ call[p].use_cache /\ call[p].cache_key \in {NoKey, ""}) =>
            /\ pc[p] = "done"
            /\ call[p].raised = "ValueError"
            /\ ~call[p].read /\ ~call[p].wrote /\ call[p].upstream = 0

\* C5 (amended): with use_cache, a cache_key of None raises ValueError before the
\* cache is read or written and before any upstream request; the empty string is a
\* key like any other: it is looked up and never raises ValueError.
C5_NoneKeyRejected ==
    \A p \in Procs :
        /\ (pc[p] # "idle" /\ call[p].use_cache /\ call[p].cache_key = NoKey) =>
               /\ pc[p] = "done"
               /\ call[p].raised = "ValueError"
               /\ ~call[p].read /\ ~call[p].wrote /\ call[p].upstream = 0
               /\ NoKey \notin DOMAIN values
        /\ (pc[p] # "idle" /\ call[p].use_cache /\ call[p].cache_key = "") =>
               /\ call[p].raised # "ValueError"
               /\ call[p].read

C5_Witness ==
    \E p \in Procs :
        /\ pc[p] = "done"
        /\ call[p].use_cache
        /\ call[p].cache_key = NoKey
        /\ call[p].raised = "ValueError"
        /\ call[p].upstream = 0

Answered == api_out.raised # "pending" /\ api_in.r.transport = "ok"

\* C6: on a 403, _api_request returns None without raising when allow_403 is set and
\* raises HTTPError 500 'Permission failure ...' when it is not, whatever the body.
C6_Status403 ==
    (Answered /\ api_in.r.status_code = 403) =>
        IF api_in.allow_403
        THEN api_out.raised = "none" /\ api_out.data = None
        ELSE /\ api_out.raised = "HTTPError"
             /\ api_out.code = 500
             /\ Says(api_out.msg, PermissionMsg)

C6_Witness ==
    /\ Answered
    /\ api_in.r.status_code = 403
    /\ api_in.allow_403
    /\ api_in.r.body = Body(TRUE, UserModel)
    /\ api_out.raised = "none"
    /\ api_out.data = None

\* C7 as stated: every status falls in one row: >= 500 raises HTTPError 502; a 4xx
\* other than 403 raises HTTPError 500; < 400 returns the parsed body; and only a
\* 403 with allow_403 yields the absent identity.
C7_ClassificationTotal ==
    Answered =>
        LET s == api_in.r.status_code IN
        /\ s >= 500 => api_out.raised = "HTTPError" /\ api_out.code = 502
        /\ (s >= 400 /\ s < 500 /\ s # 403) =>
               /\ api_out.raised = "HTTPError"
               /\ api_out.code = 500
               /\ api_out.msg[1] = "Failed to check authorization"
        /\ (s < 400 /\ api_in.r.body.parses) =>
               api_out.raised = "none" /\ api_out.data = api_in.r.body.json
        /\ (api_out.raised = "none" /\ api_out.data = None) =>
               s = 403 /\ api_in.allow_403

\* C8 as stated: a 4xx other than 403 always raises the RequestError (HTTPError 500);
\* its message carries detail exactly when the body is a JSON object: the
\* error_description field if present, else the error field; else the bare message.
C8_RequestErrorDetail ==
    (Answered /\ api_in.r.status_code >= 400 /\ api_in.r.status_code < 500
              /\ api_in.r.status_code # 403) =>
        LET b == api_in.r.body
            isobj == b.parses /\ b.json.t = "dict" IN
        /\ api_out.raised = "HTTPError"
        /\ api_out.code = 500
        /\ api_out.msg[1] = "Failed to check authorization"
        /\ isobj <=> Len(api_out.msg) > 1
        /\ (isobj /\ b.json.error_description # Missing) =>
               api_out.msg[3] = b.json.error_description
        /\ (isobj /\ b.json.error_description = Missing /\ b.json.error # Missing) =>
               api_out.msg[3] = b.json.error

ReadUsers == Unfiltered("read:users")

ReadUsersX == Scope("read:users", "user", "x")

\* C9 as stated: check_scopes({"read:users"}, {"read:users!user=x"}) returns
\* {"read:users!user=x"}.
C9_FilteredVariantReturned ==
    (/\ sc_out.done
     /\ normalize(sc_in.required_scopes) = {ReadUsers}
     /\ sc_in.scopes = {ReadUsersX}) => sc_out.result = {ReadUsersX}

\* C9 (amended): check_scopes({"read:users"}, {"read:users!user=x"}) returns the
\* empty set: when only filtered variants of a required unfiltered scope are held,
\* the result holds neither a filtered variant nor the unfiltered scope.
C9_FilteredVariantDropped ==
    \A n \in ScopeNames :
        (/\ sc_out.done
         /\ normalize(sc_in.required_scopes) = {Unfiltered(n)}
         /\ sc_in.scopes # {}
         /\ \A h \in sc_in.scopes : h.name = n /\ h.fkey # "") => sc_out.result = {}

C9_Witness ==
    /\ sc_out.done
    /\ sc_in.required_scopes = AsSet({ReadUsers})
    /\ sc_in.scopes = {ReadUsersX}
    /\ sc_out.result = {}

\* C10: the result of check_scopes is a subset of the required scopes and of what the
\* expansion returned; a required scope given as a str counts as the set of it.
C10_SubsetOfRequired ==
    sc_out.done =>
        LET r == sc_in.required_scopes
            req == IF r.type = "str" THEN {r.str} ELSE r.set IN
        /\ sc_out.result \subseteq req
        /\ sc_out.result \subseteq intersect_expanded_scopes(req, sc_in.scopes)
        /\ (r.type = "str" /\ r.str \in sc_in.scopes) => sc_out.result = {r.str}

C10_Witness ==
    /\ sc_out.done
    /\ sc_in.required_scopes = AsStr(ReadUsersX)
    /\ sc_in.scopes = {ReadUsersX, Scope("access:servers", "group", "g")}
    /\ sc_out.result = {ReadUsersX}

\* C11: holding only group-filtered grants of a scope never satisfies a requirement
\* of that scope filtered to a user, a member of the group included: the result of
\* check_scopes is empty.
C11_GroupDoesNotGrantUser ==
    \A n \in ScopeNames, f \in Filters :
        (/\ sc_out.done
         /\ f[1] = "user"
         /\ normalize(sc_in.required_scopes) = {Scope(n, f[1], f[2])}
         /\ sc_in.scopes # {}
         /\ \A h \in sc_in.scopes : h.name = n /\ h.fkey = "group") => sc_out.result = {}

C11_Witness ==
    /\ sc_out.done
    /\ sc_in.required_scopes = AsSet({Scope("access:servers", "user", "u")})
    /\ sc_in.scopes = {Scope("access:servers", "group", "g")}
    /\ InGroup("u", "g")
    /\ sc_out.result = {}

\* the Hub answers the claims call fatal: a transport failure, a status >= 500, a
\* 4xx other than 403
Fatal(r) ==
    \/ r.transport = "ConnectionError"
    \/ r.transport = "ok" /\ r.status_code >= 400 /\ r.status_code # 403

\* C12: the resolver returns None without raising only on a 403 answer or on a cache
\* hit, and on a fatal answer it has made exactly one upstream request and raises the
\* HTTPError of that classification (502 for a status >= 500, 500 otherwise), never
\* returning None in its place.
C12_MissDistinctFromFatal ==
    \A p \in Procs :
        pc[p] = "done" =>
            LET c == call[p] IN
            /\ (c.raised = "none" /\ c.data = None) =>
                   \/ c.upstream = 0 /\ c.read
                   \/ c.upstream = 1 /\ c.answer.transport = "ok"
                                     /\ c.answer.status_code = 403
            /\ (c.upstream = 1 /\ Fatal(c.answer)) =>
                   /\ c.raised = "HTTPError"
                   /\ c.code = (IF c.answer.transport = "ok" /\ c.answer.status_code >= 500
                                THEN 502 ELSE 500)

\* the caller of _api_request passed an Authorization header
CallerAuth(kwargs) == kwargs.has_headers /\ "Authorization" \in DOMAIN kwargs.headers

\* C13: the request _api_request sends carries "token <api_token>", the service's own
\* token, as Authorization exactly when the caller passed no Authorization header; the
\* headers the caller passed, Authorization included, are sent unchanged.
C13_AuthorizationInjected ==
    api_sent.made =>
        /\ "Authorization" \in DOMAIN api_sent.headers
        /\ (api_sent.headers["Authorization"] = TokenHeader(api_in.self.api_token))
               <=> ~CallerAuth(api_in.kwargs)
        /\ api_in.kwargs.has_headers =>
               \A h \in DOMAIN api_in.kwargs.headers :
                   api_sent.headers[h] = api_in.kwargs.headers[h]
        /\ DOMAIN api_sent.headers =
               {"Authorization"} \cup
               (IF api_in.kwargs.has_headers THEN DOMAIN api_in.kwargs.headers ELSE {})

C13_Witness ==
    /\ api_sent.made
    /\ CallerAuth(api_in.kwargs)
    /\ api_sent.headers["Authorization"] = TokenHeader(UserToken)
    /\ api_sent.headers["Authorization"] # TokenHeader(ServiceToken)

\* C14 as stated: every assignment to cookie_cache_max_age emits one warning and
\* copies the assigned value into cache_max_age once, whatever the field held before.
C14_EveryAssignmentWarns ==
    /\ hub.warnings = hub.assigns
    /\ hub.copies = hub.assigns
    /\ hub.last = "cookie_cache_max_age" => hub.cache_max_age = hub.cookie_cache_max_age

\* C14: an assignment to cookie_cache_max_age of a value other than the one the field
\* holds (0 until first set) emits exactly one warning and copies the value into
\* cache_max_age exactly once; an assignment of the value the field already holds
\* emits no warning and leaves cache_max_age alone.
C14_ChangingAssignmentWarns ==
    [][hub'.assigns = hub.assigns + 1 =>
          IF hub'.cookie_cache_max_age # hub.cookie_cache_max_age
          THEN /\ hub'.warnings = hub.warnings + 1
               /\ hub'.copies = hub.copies + 1
               /\ hub'.cache_max_age = hub'.cookie_cache_max_age
          ELSE /\ hub'.warnings = hub.warnings
               /\ hub'.copies = hub.copies
               /\ hub'.cache_max_age = hub.cache_max_age]_vars

C14_Witness ==
    /\ hub.assigns = 2
    /\ hub.warnings = 1
    /\ hub.last = "cookie_cache_max_age"
    /\ hub.cache_max_age # hub.cookie_cache_max_age

\* C15: once the cache is built, its max_age is the cache_max_age in effect when it
\* was built, and an assignment to cache_max_age or to cookie_cache_max_age leaves its
\* max_age and its entries unchanged.
C15_BuiltCacheKeepsMaxAge ==
    /\ [](hub.cache_built => max_age = hub.built_with)
    /\ [][(/\ hub.cache_built
           /\ \/ hub'.last # hub.last
              \/ hub'.assigns # hub.assigns
              \/ hub'.cache_max_age # hub.cache_max_age
              \/ hub'.cookie_cache_max_age # hub.cookie_cache_max_age)
          => UNCHANGED <<max_age, values, timestamps>>]_vars

C15_Witness ==
    /\ hub.cache_built
    /\ hub.built_with = 1
    /\ max_age = 1
    /\ hub.cache_max_age = 2
    /\ hub.cookie_cache_max_age = 2
    /\ hub.warnings = 1
    /\ DOMAIN values = {"token:abc"}

\* callers p and q have both missed the cache under one key, and p has not stored yet
BothMissed(p, q) ==
    /\ p # q
    /\ pc[p] = "request" /\ pc[q] \in {"request", "done"}
    /\ call[p].use_cache /\ call[q].use_cache
    /\ call[p].cache_key = call[q].cache_key
    /\ call[p].read /\ call[q].read /\ call[q].upstream <= 1
    /\ pc[q] = "done" => call[q].upstream = 1

\* C16: of two calls that have both missed the cache under one key, each makes its own
\* upstream request and ends with its own answer's result, and each that returns
\* overwrites the entry under the key with that result at the time of its write, so
\* the cache ends with the later write; the entries under other keys are untouched.
C16_SimultaneousMisses ==
    [][\A p \in ConcProcs :
          (pc[p] = "request" /\ pc'[p] = "done") =>
              LET c == call'[p]
                  o == api_request(DefaultHub, c.answer, TRUE) IN
              /\ (\E q \in ConcProcs : BothMissed(p, q)) =>
                     /\ c.upstream = 1
                     /\ c.answer \in HubAnswers
                     /\ c.raised = o.raised /\ c.data = o.data
                     /\ c.raised = "none" =>
                            /\ c.wrote
                            /\ c.cache_key \in DOMAIN values'
                            /\ values'[c.cache_key] = c.data
                            /\ timestamps'[c.cache_key] = now
                     /\ c.raised # "none" => UNCHANGED <<values, timestamps>>
              /\ \A k \in CacheKeys \ {c.cache_key} :
                     /\ k \in DOMAIN values' <=> k \in DOMAIN values
                     /\ k \in DOMAIN values =>
                            values'[k] = values[k] /\ timestamps'[k] = timestamps[k]]_vars

\* never expiring, so the second to write can only have missed before the first wrote
C16_Witness ==
    /\ max_age = 0
    /\ pc["c1"] = "done" /\ pc["c2"] = "done"
    /\ call["c1"].cache_key = "token:abc" /\ call["c2"].cache_key = "token:abc"
    /\ call["c1"].wrote /\ call["c2"].wrote
    /\ call["c1"].data = UserModel /\ call["c2"].data = None
    /\ values["token:abc"] = None
    /\ timestamps["token:abc"] = 2

\* the URLs of the model that address the local host
Loopback(url) == url \in {"http://127.0.0.1:8081/hub/api", "http://localhost:8081/hub/api"}

ConnectionFailure == api_out.raised # "pending" /\ api_in.r.transport = "ConnectionError"

\* C17 as stated: on a connection failure _api_request raises HTTPError 500 with a
\* message naming the Hub API URL and the local hostname, and carrying the same-host
\* hint exactly when the URL is a loopback URL.
C17_HintIffLoopback ==
    ConnectionFailure =>
        /\ api_out.raised = "HTTPError" /\ api_out.code = 500
        /\ Says(api_out.msg, api_in.self.api_url)
        /\ Says(api_out.msg, Hostname)
        /\ Says(api_out.msg, HubIpHint) <=> Loopback(api_in.self.api_url)

\* C17: on a connection failure _api_request raises HTTPError 500 with a message
\* naming the Hub API URL and the local hostname, and carrying the same-host hint
\* exactly when the URL contains the literal 127.0.0.1.
C17_HintIff127 ==
    ConnectionFailure =>
        /\ api_out.raised = "HTTPError" /\ api_out.code = 500
        /\ Says(api_out.msg, api_in.self.api_url)
        /\ Says(api_out.msg, Hostname)
        /\ Says(api_out.msg, HubIpHint)
               <=> api_in.self.api_url = "http://127.0.0.1:8081/hub/api"

C17_Witness ==
    /\ ConnectionFailure
    /\ api_in.self.api_url = "http://localhost:8081/hub/api"
    /\ api_out.raised = "HTTPError"
    /\ ~Says(api_out.msg, HubIpHint)

\* an environment variable counts as set when it holds a non-empty value
EnvSet(var) == var.given /\ var.v # ""

EnvSetPath(var) == var.given /\ var.v # <<>>

\* explicit value, else environment value, else the hardcoded default
Precedence(value, explicit, envset, envvar, hardcoded) ==
    /\ explicit.given => value = explicit.v
    /\ (~explicit.given /\ envset) => value = envvar.v
    /\ (~explicit.given /\ ~envset) => value = hardcoded

\* C18: each of api_url, base_url, api_token, hub_host and oauth_scopes is the explicit
\* setting when one is given (base_url with its slashes added), else the value from
\* the environment when the variable is set, else the hardcoded default; the default of
\* oauth_scopes is the JSON-decoded JUPYTERHUB_OAUTH_SCOPES if set, else
\* {access:services!service=<name>} if JUPYTERHUB_SERVICE_NAME is set, else empty.
C18_ConfigPrecedence ==
    cfg_out.built =>
        LET env == cfg_in.env
            ex  == cfg_in.explicit IN
        /\ Precedence(cfg_out.api_url, ex.api_url, EnvSet(env.JUPYTERHUB_API_URL),
                      env.JUPYTERHUB_API_URL, "http://127.0.0.1:8081/hub/api")
        /\ Precedence(cfg_out.api_token, ex.api_token, EnvSet(env.JUPYTERHUB_API_TOKEN),
                      env.JUPYTERHUB_API_TOKEN, "")
        /\ Precedence(cfg_out.hub_host, ex.hub_host, EnvSet(env.JUPYTERHUB_HOST),
                      env.JUPYTERHUB_HOST, "")
        /\ Precedence(cfg_out.base_url,
                      Opt(ex.base_url.given, <<"/", "services", "/", "explicit", "/">>),
                      EnvSetPath(env.JUPYTERHUB_SERVICE_PREFIX),
                      env.JUPYTERHUB_SERVICE_PREFIX, <<"/">>)
        /\ ex.oauth_scopes.given => cfg_out.oauth_scopes = ex.oauth_scopes.v
        /\ ~ex.oauth_scopes.given =>
               cfg_out.oauth_scopes =
                   IF env.JUPYTERHUB_OAUTH_SCOPES = Opt(TRUE, JsonReadUsers)
                   THEN {<<"read:users">>}
                   ELSE IF env.JUPYTERHUB_OAUTH_SCOPES = Opt(TRUE, "[]") THEN {}
                   ELSE IF EnvSet(env.JUPYTERHUB_SERVICE_NAME)
                   THEN {<<"access:services!service=", env.JUPYTERHUB_SERVICE_NAME.v>>}
                   ELSE {}

C18_Witness ==
    /\ cfg_out.built
    /\ cfg_in.explicit.api_url.given /\ EnvSet(cfg_in.env.JUPYTERHUB_API_URL)
    /\ cfg_out.api_url = "http://10.0.0.1:8081/hub/api"
    /\ ~cfg_in.explicit.api_token.given /\ cfg_out.api_token = "env-token"
    /\ ~cfg_in.explicit.hub_host.given /\ cfg_out.hub_host = ""
    /\ ~cfg_in.explicit.oauth_scopes.given
    /\ cfg_in.env.JUPYTERHUB_OAUTH_SCOPES = Opt(TRUE, "[]")
    /\ cfg_in.env.JUPYTERHUB_SERVICE_NAME = Opt(TRUE, "svc")
    /\ cfg_out.oauth_scopes = {}

\* C19: a call that missed (or skipped) the cache has made its upstream request with
\* "token <the token being verified>" as Authorization, not the service's own token,
\* and with allow_403 true; when it returns under use_cache its result, an identity or
\* None, is stored under cache_key; a 403 answer is returned as None, and cached as
\* None, never raised.
C19_MissAsksHubAndStores ==
    \A p \in Procs :
        (pc[p] = "done" /\ call[p].upstream = 1) =>
            LET c == call[p] IN
            /\ c.auth = TokenHeader(c.api_token)
            /\ c.auth # TokenHeader(ServiceToken)
            /\ c.allow_403
            /\ (c.use_cache /\ c.raised = "none") =>
                   /\ c.wrote
                   /\ c.cache_key \in DOMAIN values
                   /\ values[c.cache_key] = c.data
            /\ (c.answer.transport = "ok" /\ c.answer.status_code = 403) =>
                   /\ c.raised = "none"
                   /\ c.data = None

C19_Witness ==
    \E p \in Procs :
        /\ pc[p] = "done"
        /\ call[p].use_cache /\ call[p].read /\ call[p].upstream = 1
        /\ call[p].answer.status_code = 403
        /\ call[p].raised = "none"
        /\ call[p].wrote
        /\ values[call[p].cache_key] = None
        /\ call[p].auth = <<"token ", "user-token">>

\* the entry of key is older than max_age
Stale(key) ==
    key \in DOMAIN timestamps /\ max_age > 0 /\ now - timestamps[key] > max_age

\* the step leaves the entry of key as it is: there or not, its value, its timestamp
EntryUnchanged(key) ==
    /\ key \in DOMAIN values' <=> key \in DOMAIN values
    /\ key \in DOMAIN timestamps' <=> key \in DOMAIN timestamps
    /\ key \in DOMAIN values => values'[key] = values[key]
    /\ key \in DOMAIN timestamps => timestamps'[key] = timestamps[key]

\* C20: the value map and the timestamp map always have the same keys; the passing of
\* time removes nothing, a stale entry staying stored; a read or contains of a key
\* removes its entry from both maps when it is stale, leaves it when it is not, and
\* leaves the entry of every other key as it is.
C20_LazyCompleteEviction ==
    /\ [](DOMAIN values = DOMAIN timestamps)
    /\ [][now' # now => UNCHANGED <<values, timestamps>>]_vars
    /\ [][(/\ last_op'.op \in ReadOps
           /\ last_op' # last_op \/ values' # values \/ timestamps' # timestamps) =>
              LET key == last_op'.key IN
              /\ Stale(key) => key \notin DOMAIN values' /\ key \notin DOMAIN timestamps'
              /\ ~Stale(key) => EntryUnchanged(key)
              /\ \A k \in CacheKeys \ {key} : EntryUnchanged(k)]_vars

\* a stale entry still stored beside a fresh one, after a contains of the fresh one
C20_Witness ==
    /\ Stale("")
    /\ "" \in DOMAIN values
    /\ "token:abc" \in DOMAIN values /\ ~Stale("token:abc")
    /\ last_op.op = "contains" /\ last_op.key = "token:abc" /\ last_op.found
    /\ last_op.at = now

\* C21: a set of a key stores the value and the current time as its timestamp whether
\* or not the key held an entry, fresh or stale; every entry is the latest set of its
\* key, and the timestamp a read tests is the time of that latest set.
C21_SetRestartsTTL ==
    /\ [](\A k \in DOMAIN values :
             /\ k \in DOMAIN lastset /\ k \in DOMAIN timestamps
             /\ values[k] = lastset[k].value
             /\ timestamps[k] = lastset[k].t)
    /\ [](last_op.op = "setitem" =>
             /\ last_op.key \in DOMAIN values
             /\ values[last_op.key] = last_op.arg
             /\ timestamps[last_op.key] = last_op.at)
    /\ []((last_op.op \in ReadOps /\ last_op.had) =>
             last_op.was = lastset[last_op.key].t)

\* a stale entry overwritten by a set of another value
C21_Witness ==
    /\ max_age > 0
    /\ last_op.op = "setitem"
    /\ last_op.had
    /\ last_op.at - last_op.was > max_age
    /\ last_op.arg = None
    /\ values[last_op.key] = None
    /\ timestamps[last_op.key] = now
    /\ now > last_op.was

\* every upstream request made for key in its current window has raised
OnlyFailures(key) == win[key].open /\ win[key].up >= 1 /\ win[key].ok = 0

\* C22: an upstream request that raises leaves the cache as it was; the call that made
\* it has stored nothing, so the key it missed is not in the cache; and the next call
\* with that key goes upstream again instead of returning anything from the cache.
C22_FailureNotCached ==
    /\ [](\A p \in Procs :
             (pc[p] = "done" /\ call[p].upstream = 1 /\ call[p].raised # "none") =>
                 /\ ~call[p].wrote
                 /\ call[p].use_cache => call[p].cache_key \notin DOMAIN values)
    /\ [](\A k \in CacheKeys : OnlyFailures(k) => k \notin DOMAIN values)
    /\ [][\A p \in Procs :
             /\ (pc[p] = "request" /\ pc'[p] = "done" /\ call'[p].raised # "none") =>
                    UNCHANGED <<values, timestamps>>
             /\ (/\ pc[p] = "idle" /\ pc'[p] # "idle"
                 /\ call'[p].use_cache
                 /\ call'[p].cache_key \in CacheKeys
                 /\ OnlyFailures(call'[p].cache_key)) =>
                    pc'[p] = "request" /\ call'[p].upstream = 0]_vars

\* the second call of a key in one window, after the first one failed, has gone
\* upstream too, while another key keeps its entry
C22_Witness ==
    \E p \in Procs :
        /\ pc[p] = "done"
        /\ call[p].use_cache /\ call[p].cache_key = "token:abc"
        /\ call[p].upstream = 1
        /\ call[p].raised = "HTTPError" /\ call[p].code = 502
        /\ win["token:abc"].up = 2 /\ win["token:abc"].ok = 0
        /\ "token:abc" \notin DOMAIN values
        /\ "" \in DOMAIN values

\* C23: a call with use_cache false has not looked the cache up, ends only after one
\* upstream request, with that request's outcome, and stores nothing; none of its
\* steps changes a value or a timestamp of the cache.
C23_NoCacheUse ==
    /\ [](\A p \in DOMAIN pc :
             (pc[p] # "idle" /\ ~call[p].use_cache) =>
                 /\ ~call[p].read /\ ~call[p].wrote
                 /\ pc[p] = "done" =>
                        LET o == api_request(DefaultHub, call[p].answer, TRUE) IN
                        /\ call[p].upstream = 1
                        /\ call[p].answer \in HubAnswers
                        /\ call[p].raised = o.raised /\ call[p].data = o.data)
    /\ [][\A p \in DOMAIN pc :
             (pc'[p] # pc[p] /\ pc'[p] # "idle" /\ ~call'[p].use_cache) =>
                 UNCHANGED <<values, timestamps>>]_vars

\* the key passed has a fresh identity in the cache; the call returns the None of
\* the Hub's 403
C23_Witness ==
    \E p \in DOMAIN pc :
        /\ pc[p] = "done"
        /\ ~call[p].use_cache /\ call[p].cache_key = "token:abc"
        /\ "token:abc" \in DOMAIN values
        /\ values["token:abc"] = UserModel
        /\ max_age = 0 \/ now - timestamps["token:abc"] < max_age
        /\ call[p].upstream = 1
        /\ call[p].answer.status_code = 403
        /\ call[p].raised = "none" /\ call[p].data = None

\* C24 as stated, for the call whose lookup found the entry stale: it has gone
\* upstream and the key holds the entry it stored; and a call served from the cache
\* returns the entry stored.
C24_StaleEntryReplaced ==
    \A p \in Procs :
        pc[p] = "done" =>
            LET c == call[p] IN
            /\ (c.read /\ c.upstream = 0) => c.data = values[c.cache_key]
            /\ evicted[p] =>
                   /\ c.upstream = 1
                   /\ c.cache_key \in DOMAIN values
                   /\ values[c.cache_key] = c.data

\* C24: with max_age > 0 a value returned from the cache is that of an entry at most
\* max_age old, and entries are stored only by an upstream request that returns, with
\* its result, at the time it returns; a call with use_cache that finds the entry of
\* its key older than max_age drops it and goes upstream, after which the key holds
\* that request's result if it returned, and no entry if it raised.
C24_BoundedStaleness ==
    /\ [][\A p \in Procs :
             /\ (/\ max_age > 0
                 /\ pc[p] = "idle" /\ pc'[p] = "done"
                 /\ call'[p].read /\ call'[p].raised = "none") =>
                    LET k == call'[p].cache_key IN
                    /\ k \in DOMAIN timestamps
                    /\ now - timestamps[k] <= max_age
                    /\ call'[p].data = values[k]
             /\ (/\ pc[p] = "idle" /\ pc'[p] # "idle"
                 /\ call'[p].use_cache
                 /\ Stale(call'[p].cache_key)) =>
                    /\ pc'[p] = "request"
                    /\ evicted'[p]
                    /\ call'[p].cache_key \notin DOMAIN values']_vars
    /\ [][\A k \in CacheKeys :
             (/\ k \in DOMAIN values'
              /\ \/ k \notin DOMAIN values
                 \/ values'[k] # values[k]
                 \/ timestamps'[k] # timestamps[k]) =>
                 \E p \in Procs :
                     /\ pc[p] = "request" /\ pc'[p] = "done"
                     /\ call'[p].cache_key = k
                     /\ call'[p].upstream = 1 /\ call'[p].raised = "none"
                     /\ values'[k] = api_request(DefaultHub, call'[p].answer, TRUE).data
                     /\ timestamps'[k] = now]_vars
    /\ [](\A p \in Procs :
             (pc[p] = "done" /\ evicted[p]) =>
                 LET c == call[p] IN
                 /\ c.upstream = 1
                 /\ c.raised = "none" =>
                        /\ c.cache_key \in DOMAIN values
                        /\ values[c.cache_key] = c.data
                 /\ c.raised # "none" => c.cache_key \notin DOMAIN values)

\* the entry was stale, the call went upstream, the Hub failed: the key has no entry
C24_Witness ==
    \E p \in Procs :
        /\ max_age > 0
        /\ pc[p] = "done"
        /\ evicted[p]
        /\ call[p].upstream = 1
        /\ call[p].raised = "HTTPError"
        /\ call[p].cache_key \notin DOMAIN values

====
